---- MODULE Spec2Model ----
(***************************************************************************)
(* Model of scripts/train.py: the Train class (constructor, train, test),  *)
(* the Optuna objective and the search driver started by main.             *)
(*                                                                         *)
(* Learning rates are integers in units of 1e-5.  A decayed learning rate  *)
(* is the pair (base, decays): base * gamma^decays (StepLR, step_size 1).  *)
(* Model parameters are the history of the optimizer steps applied to a    *)
(* freshly initialised network.  An accuracy correct/total is the pair     *)
(* <<correct, total>>.                                                     *)
(***************************************************************************)
EXTENDS Integers, Sequences, FiniteSets, TLC

\* ---- bounds of the model ----
MaxTrain == 4
MaxBatch == 2
MaxLogInterval == 2
MaxTest == 2
MaxTestBatch == 2
MaxClock == 600

\* ---- program constants ----
ARGS_LR == 200
ARGS_EPOCHS == 2
LR_LOW == 1
LR_HIGH == 10000
EPOCHS_LOW == 1
EPOCHS_HIGH == 1
N_TRIALS == 5
TIMEOUT == 600

\* ---- modelling sets ----
TickLen == 300
Classes == {0, 1}
Scores == {0, 1}
SampledLrs == {LR_LOW, LR_HIGH}
NoTrial == [lr |-> 0, epochs |-> 0]
NoFile == [written |-> FALSE, by_trial |-> 0, state_dict |-> <<>>]
NoBest == [set |-> FALSE, params |-> NoTrial, value |-> <<0, 1>>]

VARIABLES args, train_n, test_labels, clock, study, pc, wandb, model,
          self_optimizer, optimizer, scheduler, trial, epoch, batch_idx,
          epochLog, test_idx, correct, testLog, accuracy, file, trainCalls,
          testCalls, printed

vars == <<args, train_n, test_labels, clock, study, pc, wandb, model,
          self_optimizer, optimizer, scheduler, trial, epoch, batch_idx,
          epochLog, test_idx, correct, testLog, accuracy, file, trainCalls,
          testCalls, printed>>

\* ---- pure helpers ----
Min(a, b) == IF a < b THEN a ELSE b

\* len(DataLoader): number of batches of a dataset of n examples (drop_last off)
NumBatches(n, b) == (n + b - 1) \div b

\* len(data) of batch i: the last batch may be short
BatchLen(n, b, i) == Min(b, n - i * b)

\* "{:.0f}".format(num / den): round to nearest, ties to even
RoundHalfEven(num, den) ==
    LET q == num \div den
        r == num % den
    IN  IF 2 * r < den THEN q
        ELSE IF 2 * r > den THEN q + 1
        ELSE IF q % 2 = 0 THEN q ELSE q + 1

\* the status line of train(): epoch, batch_idx * len(data), len(dataset), percentage
StatusRecord(e, i) ==
    [epoch |-> e,
     processed |-> i * BatchLen(train_n, args.batch_size, i),
     total |-> train_n,
     pct |-> RoundHalfEven(100 * i, NumBatches(train_n, args.batch_size))]

\* variant: the interval test taken on the count of batches, not the index
Logged_Shifted(i) == (i + 1) % args.log_interval = 0

\* batch_idx % log_interval == 0
Logged(i) == i % args.log_interval = 0

\* the break of train(): inside the logging branch, when dry_run is set
StopsEpoch(i) == Logged(i) /\ args.dry_run

\* the learning rate an optimizer currently applies
CurrentLr(opt) == [base |-> opt.lr0, decays |-> opt.decays]

\* optimizer.step(): one parameter update of model m by optimizer opt
OptimizerStep(m, opt) ==
    [m EXCEPT !.params = Append(@, [by |-> opt.name, lr |-> CurrentLr(opt)])]

\* variant: the index of a minimal score
Argmax_Min(scores) ==
    CHOOSE c \in Classes : \A d \in Classes : scores[c] <= scores[d]

\* output.argmax(dim=1): index of the first maximal score, scanning the classes
RECURSIVE ArgmaxFrom(_, _, _)
ArgmaxFrom(scores, c, best) ==
    IF c \notin Classes THEN best
    ELSE ArgmaxFrom(scores, c + 1, IF scores[c] > scores[best] THEN c ELSE best)

Argmax(scores) == ArgmaxFrom(scores, 1, 0)

\* pred.eq(target.view_as(pred)).sum().item() over one batch of examples
RECURSIVE BatchCorrect(_)
BatchCorrect(batch) ==
    IF batch = <<>> THEN 0
    ELSE (IF Argmax(Head(batch).scores) = Head(batch).label THEN 1 ELSE 0)
         + BatchCorrect(Tail(batch))

\* the labels of test batch i
TestBatchLabels(i) ==
    LET lo == i * args.test_batch_size
        len == BatchLen(Len(test_labels), args.test_batch_size, i)
    IN  [k \in 1..len |-> test_labels[lo + k]]

\* a > b for fractions <<num, den>>
FracGreater(a, b) == a[1] * b[2] > b[1] * a[2]

\* variant: no timeout is handed to the driver
BudgetLeft_NoTimeout == study.started < N_TRIALS

\* study.optimize(objective, n_trials=5, timeout=600): another trial is started
\* while fewer than n_trials were started and the elapsed time is below timeout
BudgetLeft == study.started < N_TRIALS /\ clock < TIMEOUT

\* variant: one iteration too many
LoopContinues_Extra(e, n) == e < n

\* range(epochs): another iteration follows iteration e
LoopContinues(e, n) == e + 1 < n

\* variant: the save is not guarded by the flag
SavedFile_Always(f, m) ==
    [written |-> TRUE, by_trial |-> m.trial, state_dict |-> m.params]

\* torch.save(...) guarded by args.save_model
SavedFile(f, m) ==
    IF args.save_model
    THEN [written |-> TRUE, by_trial |-> m.trial, state_dict |-> m.params]
    ELSE f

\* direction="maximize": the study's best trial after a trial reports value v
NewBest(b, p, v) ==
    IF ~b.set \/ FracGreater(v, b.value)
    THEN [set |-> TRUE, params |-> p, value |-> v]
    ELSE b

\* ---- configurations ----
BaseArgs == [batch_size |-> 1, test_batch_size |-> 1, log_interval |-> 1,
             dry_run |-> FALSE, save_model |-> FALSE,
             lr |-> ARGS_LR, epochs |-> ARGS_EPOCHS]

TrainConfigurations ==
    {[args |-> [BaseArgs EXCEPT !.batch_size = b, !.log_interval = l,
                                !.dry_run = d, !.save_model = s],
      train_n |-> n, test_labels |-> <<0>>] :
        n \in 1..MaxTrain, b \in 1..MaxBatch, l \in 1..MaxLogInterval,
        d \in BOOLEAN, s \in BOOLEAN}

TestConfigurations ==
    {[args |-> [BaseArgs EXCEPT !.test_batch_size = tb],
      train_n |-> 1, test_labels |-> lab] :
        tb \in 1..MaxTestBatch,
        lab \in UNION {[1..n -> Classes] : n \in 1..MaxTest}}

Configurations == TrainConfigurations \cup TestConfigurations

Init ==
    /\ \E c \in Configurations :
         /\ args = c.args
         /\ train_n = c.train_n
         /\ test_labels = c.test_labels
    /\ clock = 0
    /\ study = [started |-> 0, completed |-> 0, best |-> NoBest, last |-> <<0, 1>>]
    /\ pc = "driver"
    /\ wandb = [inits |-> 0, config |-> [learning_rate |-> 0, epochs |-> 0]]
    /\ model = [trial |-> 0, params |-> <<>>, training |-> TRUE]
    /\ self_optimizer = [name |-> "self", lr0 |-> 0, decays |-> 0, steps |-> 0]
    /\ optimizer = [name |-> "trial", lr0 |-> 0, decays |-> 0, steps |-> 0]
    /\ scheduler = [last_epoch |-> 0]
    /\ trial = NoTrial
    /\ epoch = 0
    /\ batch_idx = 0
    /\ epochLog = <<>>
    /\ test_idx = 0
    /\ correct = 0
    /\ testLog = <<>>
    /\ accuracy = <<0, 1>>
    /\ file = NoFile
    /\ trainCalls = 0
    /\ testCalls = 0
    /\ printed = NoTrial

\* ---- actions ----

\* study.optimize starts a trial: objective runs Train(), samples lr and
\* epochs, builds its optimizer and scheduler and enters the epoch loop
StartTrial ==
    /\ pc = "driver"
    /\ BudgetLeft
    /\ \E lr \in SampledLrs, ep \in EPOCHS_LOW..EPOCHS_HIGH :
         /\ trial' = [lr |-> lr, epochs |-> ep]
         /\ optimizer' = [name |-> "trial", lr0 |-> lr, decays |-> 0, steps |-> 0]
    /\ study' = [study EXCEPT !.started = @ + 1]
    /\ wandb' = [inits |-> wandb.inits + 1,
                 config |-> [learning_rate |-> args.lr, epochs |-> args.epochs]]
    /\ model' = [trial |-> study.started + 1, params |-> <<>>, training |-> TRUE]
    /\ self_optimizer' = [name |-> "self", lr0 |-> args.lr, decays |-> 0, steps |-> 0]
    /\ scheduler' = [last_epoch |-> 0]
    /\ epoch' = 0
    /\ trainCalls' = 0
    /\ testCalls' = 0
    /\ pc' = "train_begin"
    /\ UNCHANGED <<args, train_n, test_labels, clock, batch_idx, epochLog,
                   test_idx, correct, testLog, accuracy, file, printed>>

\* t.train(epoch) is entered: model.train(), the batch enumeration starts
TrainBegin ==
    /\ pc = "train_begin"
    /\ model' = [model EXCEPT !.training = TRUE]
    /\ batch_idx' = 0
    /\ epochLog' = <<>>
    /\ pc' = "train"
    /\ UNCHANGED <<args, train_n, test_labels, clock, study, wandb,
                   self_optimizer, optimizer, scheduler, trial, epoch,
                   test_idx, correct, testLog, accuracy, file, trainCalls,
                   testCalls, printed>>

\* one iteration of the loop of train(): forward, backward, self.optimizer.step(),
\* the status record every log_interval batches, the dry-run break
TrainBatch ==
    /\ pc = "train"
    /\ batch_idx < NumBatches(train_n, args.batch_size)
    /\ model' = OptimizerStep(model, self_optimizer)
    /\ self_optimizer' = [self_optimizer EXCEPT !.steps = @ + 1]
    /\ epochLog' = IF Logged(batch_idx)
                   THEN Append(epochLog, StatusRecord(epoch, batch_idx))
                   ELSE epochLog
    /\ \E d \in {0, TickLen} :
         /\ clock < MaxClock \/ d = 0
         /\ clock' = clock + d
    /\ IF StopsEpoch(batch_idx)
          \/ batch_idx + 1 = NumBatches(train_n, args.batch_size)
       THEN /\ pc' = "test_begin"
            /\ trainCalls' = trainCalls + 1
            /\ batch_idx' = batch_idx
       ELSE /\ pc' = "train"
            /\ trainCalls' = trainCalls
            /\ batch_idx' = batch_idx + 1
    /\ UNCHANGED <<args, train_n, test_labels, study, wandb, optimizer,
                   scheduler, trial, epoch, test_idx, correct, testLog,
                   accuracy, file, testCalls, printed>>

\* t.test() is entered: model.eval(), test_loss = 0, correct = 0
TestBegin ==
    /\ pc = "test_begin"
    /\ model' = [model EXCEPT !.training = FALSE]
    /\ test_idx' = 0
    /\ correct' = 0
    /\ testLog' = <<>>
    /\ pc' = "test"
    /\ UNCHANGED <<args, train_n, test_labels, clock, study, wandb,
                   self_optimizer, optimizer, scheduler, trial, epoch,
                   batch_idx, epochLog, accuracy, file, trainCalls,
                   testCalls, printed>>

\* variant: the evaluation pass applies an optimizer step
NoGradForward_Step(m) == OptimizerStep(m, self_optimizer)

\* the parameters of the model after a forward pass under torch.no_grad()
NoGradForward(m) == m

\* one iteration of the loop of test(): the model scores the batch (any
\* scores), the predictions that equal the labels are added to correct
TestBatch ==
    /\ pc = "test"
    /\ test_idx < NumBatches(Len(test_labels), args.test_batch_size)
    /\ LET labels == TestBatchLabels(test_idx)
       IN  \E output \in [DOMAIN labels -> [Classes -> Scores]] :
             LET batch == [k \in DOMAIN labels |->
                             [scores |-> output[k], label |-> labels[k]]]
             IN  /\ correct' = correct + BatchCorrect(batch)
                 /\ testLog' = testLog \o batch
    /\ model' = NoGradForward(model)
    /\ test_idx' = test_idx + 1
    /\ UNCHANGED <<args, train_n, test_labels, clock, study, pc, wandb,
                   self_optimizer, optimizer, scheduler, trial, epoch,
                   batch_idx, epochLog, accuracy, file, trainCalls,
                   testCalls, printed>>

\* test() returns correct / len(dataset) to objective
TestReturn ==
    /\ pc = "test"
    /\ test_idx = NumBatches(Len(test_labels), args.test_batch_size)
    /\ accuracy' = <<correct, Len(test_labels)>>
    /\ testCalls' = testCalls + 1
    /\ pc' = "sched"
    /\ UNCHANGED <<args, train_n, test_labels, clock, study, wandb, model,
                   self_optimizer, optimizer, scheduler, trial, epoch,
                   batch_idx, epochLog, test_idx, correct, testLog, file,
                   trainCalls, printed>>

\* scheduler.step() of objective's scheduler, then the next epoch or the end
SchedulerStep ==
    /\ pc = "sched"
    /\ scheduler' = [last_epoch |-> scheduler.last_epoch + 1]
    /\ optimizer' = [optimizer EXCEPT !.decays = @ + 1]
    /\ IF LoopContinues(epoch, trial.epochs)
       THEN /\ epoch' = epoch + 1
            /\ pc' = "train_begin"
       ELSE /\ epoch' = epoch
            /\ pc' = "save"
    /\ UNCHANGED <<args, train_n, test_labels, clock, study, wandb, model,
                   self_optimizer, trial, batch_idx, epochLog, test_idx,
                   correct, testLog, accuracy, file, trainCalls, testCalls,
                   printed>>

\* the end of objective: the optional torch.save, then the accuracy is
\* returned to the study
SaveAndReturn ==
    /\ pc = "save"
    /\ file' = SavedFile(file, model)
    /\ study' = [study EXCEPT !.completed = @ + 1,
                              !.last = accuracy,
                              !.best = NewBest(@, trial, accuracy)]
    /\ pc' = "driver"
    /\ UNCHANGED <<args, train_n, test_labels, clock, wandb, model,
                   self_optimizer, optimizer, scheduler, trial, epoch,
                   batch_idx, epochLog, test_idx, correct, testLog, accuracy,
                   trainCalls, testCalls, printed>>

\* study.optimize returns; main prints the parameters of the best trial
Finish ==
    /\ pc = "driver"
    /\ ~BudgetLeft
    /\ printed' = study.best.params
    /\ pc' = "done"
    /\ UNCHANGED <<args, train_n, test_labels, clock, study, wandb, model,
                   self_optimizer, optimizer, scheduler, trial, epoch,
                   batch_idx, epochLog, test_idx, correct, testLog, accuracy,
                   file, trainCalls, testCalls>>

Next ==
    \/ StartTrial
    \/ TrainBegin
    \/ TrainBatch
    \/ TestBegin
    \/ TestBatch
    \/ TestReturn
    \/ SchedulerStep
    \/ SaveAndReturn
    \/ Finish

Spec == Init /\ [][Next]_vars

TypeOK ==
    /\ pc \in {"driver", "train_begin", "train", "test_begin", "test",
               "sched", "save", "done"}
    /\ study.completed <= study.started
    /\ clock \in 0..(MaxClock + TickLen)

\* ---- properties ----

InTrial == pc \in {"train_begin", "train", "test_begin", "test", "sched", "save"}

\* C1: every optimizer step applied to the trial's model is taken by the
\* optimizer that objective built for the trial, at the learning rate
\* sampled for the trial (decayed by the trial's schedule)
C1_StepsUseSampledLr ==
    \A i \in DOMAIN model.params :
        /\ model.params[i].by = optimizer.name
        /\ model.params[i].lr.base = trial.lr

\* C2: with dry_run set, once train() has returned it has processed exactly
\* one batch (one optimizer step), emitted exactly one status record and
\* fetched no further batch
C2_DryRunOneBatch ==
    (args.dry_run /\ pc \in {"test_begin", "test", "sched"}) =>
        /\ batch_idx = 0
        /\ Len(epochLog) = 1
        /\ Len(model.params) = epoch + 1
        /\ self_optimizer.steps = epoch + 1

C2_Witness ==
    /\ args.dry_run
    /\ pc = "test_begin"
    /\ NumBatches(train_n, args.batch_size) > 1
    /\ args.log_interval > 1

\* C3: a logged batch reports the number of samples processed so far over
\* the total; with batch_size 2, log_interval 1, no dry run and 4 examples
\* the epoch logs "2/4 (50%)" and then "4/4 (100%)"
C3_ProgressIsSamplesSoFar ==
    /\ \A k \in DOMAIN epochLog :
         /\ epochLog[k].processed =
              Min(train_n, ((k - 1) * args.log_interval + 1) * args.batch_size)
         /\ epochLog[k].total = train_n
    /\ (/\ args.batch_size = 2
        /\ args.log_interval = 1
        /\ ~args.dry_run
        /\ train_n = 4
        /\ pc = "test_begin")
       => /\ Len(epochLog) = 2
          /\ epochLog[1].processed = 2 /\ epochLog[1].total = 4 /\ epochLog[1].pct = 50
          /\ epochLog[2].processed = 4 /\ epochLog[2].total = 4 /\ epochLog[2].pct = 100

\* an example whose label scores strictly higher than every class before it
\* and at least as high as every class after it
CorrectlyClassified(e) ==
    \A d \in Classes :
        IF d < e.label THEN e.scores[e.label] > e.scores[d]
        ELSE e.scores[e.label] >= e.scores[d]

\* C4: test() returns correct/total, correct the number of test examples
\* whose highest-scoring class is the label and total the size of the test
\* set; every example is counted once, 0 <= correct <= total, and the
\* accuracy is 1 exactly when every example is classified correctly
C4_AccuracyIsCorrectOverTotal ==
    pc = "sched" =>
        /\ Len(testLog) = Len(test_labels)
        /\ \A i \in DOMAIN testLog : testLog[i].label = test_labels[i]
        /\ accuracy[1] = Cardinality({i \in DOMAIN testLog : CorrectlyClassified(testLog[i])})
        /\ accuracy[2] = Len(test_labels)
        /\ accuracy[2] > 0
        /\ 0 <= accuracy[1] /\ accuracy[1] <= accuracy[2]
        /\ (accuracy[1] = accuracy[2]) <=>
              (\A i \in DOMAIN testLog : CorrectlyClassified(testLog[i]))

C4_Witness ==
    /\ pc = "sched"
    /\ Len(test_labels) = 2
    /\ args.test_batch_size = 1
    /\ accuracy = <<1, 2>>
    /\ test_labels[2] = 1
    /\ CorrectlyClassified(testLog[2])

\* C5: at most N_TRIALS trials are started, a trial is started only while
\* the elapsed time is below TIMEOUT, and a running trial is never cut
\* short: it stays running until its result is recorded
C5_StartWithinBudget ==
    study'.started > study.started => (clock < 600 /\ study.started < 5)

C5_RunsToCompletion ==
    InTrial =>
        \/ /\ InTrial'
           /\ study'.started = study.started
           /\ study'.completed = study.completed
        \/ /\ pc' = "driver"
           /\ study'.started = study.started
           /\ study'.completed = study.completed + 1
           /\ study'.last = accuracy

C5_TrialAndTimeBudget ==
    /\ [](study.started <= 5)
    /\ [][C5_StartWithinBudget]_vars
    /\ [][C5_RunsToCompletion]_vars

C5_Witness ==
    /\ pc = "driver"
    /\ clock >= TIMEOUT
    /\ study.completed = study.started
    /\ study.started \in 1..(N_TRIALS - 1)

\* C6: a trial runs exactly the sampled number of epochs; in epoch i train()
\* returns before test() starts, test() returns before the schedule is
\* advanced, the schedule advances once per epoch, and the value reported
\* to the study is the accuracy returned by the last test() call
C6_TrialStateMachine ==
    /\ pc \in {"train_begin", "train"} =>
         /\ epoch < trial.epochs
         /\ trainCalls = epoch /\ testCalls = epoch /\ scheduler.last_epoch = epoch
    /\ pc \in {"test_begin", "test"} =>
         /\ epoch < trial.epochs
         /\ trainCalls = epoch + 1 /\ testCalls = epoch /\ scheduler.last_epoch = epoch
    /\ pc = "sched" =>
         /\ epoch < trial.epochs
         /\ trainCalls = epoch + 1 /\ testCalls = epoch + 1
         /\ scheduler.last_epoch = epoch
    /\ pc = "save" =>
         /\ trainCalls = trial.epochs /\ testCalls = trial.epochs
         /\ scheduler.last_epoch = trial.epochs
         /\ optimizer.decays = trial.epochs
    /\ (pc \in {"driver", "done"} /\ study.completed > 0) =>
         /\ trainCalls = trial.epochs /\ testCalls = trial.epochs
         /\ scheduler.last_epoch = trial.epochs
         /\ study.last = accuracy
         /\ accuracy = <<correct, Len(test_labels)>>

C6_Witness ==
    /\ pc = "driver"
    /\ study.completed = 2
    /\ study.last = <<1, 1>>

\* C7: no step of test() changes the model's parameters, and none steps an
\* optimizer or the schedule
C7_EvaluateStep ==
    pc \in {"test_begin", "test"} =>
        /\ model'.params = model.params
        /\ model'.trial = model.trial
        /\ self_optimizer' = self_optimizer
        /\ optimizer' = optimizer
        /\ scheduler' = scheduler

C7_EvaluateKeepsModelState == [][C7_EvaluateStep]_vars

C7_Witness ==
    /\ pc = "sched"
    /\ Len(model.params) >= 1
    /\ ~model.training
    /\ Len(testLog) >= 2

\* C8: the metrics sink is initialised once per process run, however many
\* trials run
C8_SinkInitialisedOnce ==
    study.started >= 1 => wandb.inits = 1

\* C9: the run of the metrics sink records the learning rate sampled for the
\* trial and the epoch count used by the trial
C9_RunRecordsSampledValues ==
    study.started >= 1 =>
        /\ wandb.config.learning_rate = trial.lr
        /\ wandb.config.epochs = trial.epochs

\* C10: with save_model set the file is written when a trial's epochs are
\* complete and only then, and it holds the final parameters of the most
\* recently completed trial; with save_model unset it is never written
C10_FileState ==
    IF ~args.save_model \/ study.completed = 0 THEN file = NoFile
    ELSE /\ file.written
         /\ file.by_trial = study.completed
         /\ (pc \in {"driver", "done"} =>
                /\ model.trial = study.completed
                /\ file.state_dict = model.params)

C10_WrittenOnlyAtTrialEnd ==
    file' # file =>
        /\ pc = "save"
        /\ pc' = "driver"
        /\ study'.completed = study.completed + 1

C10_FileHoldsLastTrial ==
    /\ []C10_FileState
    /\ [][C10_WrittenOnlyAtTrialEnd]_vars

C10_Witness ==
    /\ args.save_model
    /\ pc = "driver"
    /\ study.completed >= 2
    /\ file.by_trial = study.completed
    /\ Len(file.state_dict) >= 2
    /\ FracGreater(study.best.value, study.last)
====
